---------------------------- MODULE Spec2Model ----------------------------
(***************************************************************************)
(* Model of the detection pipeline of detect_chatgpt.py (query_lls,        *)
(* run_perturbation_experiment and the part of __main__ that wires them)   *)
(* and of repair_dataframe of data_processing.py.                          *)
(*                                                                         *)
(* Numbers.  Log likelihoods are integers (a fixed-point unit).  The       *)
(* derived numbers are kept exact:                                         *)
(*   a mean or a difference is [num, den]       the value num / den,       *)
(*                                              0/0 being numpy's nan;     *)
(*   a standard deviation is [rad, den]         the value sqrt(rad) / den; *)
(*   a z-score is [num, den, rad]               num / (den * sqrt(rad)),   *)
(*                                              rad = 0 a division by 0.   *)
(* Floating-point rounding is not modelled.                                *)
(***************************************************************************)
EXTENDS Integers, Sequences, FiniteSets, TLC

\* Bounds of the model.
MaxRecords == 2
MaxPerturbations == 2
MaxCallRecords == 1
MaxRows == 4

\* The scores the Likelihood Querier may return for a text.
LLValues == {-3, -1}

VARIABLES openai, results, pc, k, p_sampled_ll, p_original_ll, c, experiments,
          seen, data, row, count, fail, rpc, broken, queried, row_is_view

pipeVars == <<openai, results, pc, k, p_sampled_ll, p_original_ll, c, experiments, seen>>
repairVars == <<data, row, count, fail, rpc, broken, queried, row_is_view>>
vars == <<openai, results, pc, k, p_sampled_ll, p_original_ll, c, experiments,
          seen, data, row, count, fail, rpc, broken, queried, row_is_view>>

---------------------------------------------------------------------------
\* Arithmetic (numpy).

RECURSIVE SumSeq(_)
SumSeq(s) == IF s = <<>> THEN 0 ELSE Head(s) + SumSeq(Tail(s))

RECURSIVE SumSq(_)
SumSq(s) == IF s = <<>> THEN 0 ELSE Head(s) * Head(s) + SumSq(Tail(s))

\* np.mean: sum / len; nan (0/0) for an empty list.
Mean(s) == [num |-> SumSeq(s), den |-> Len(s)]

\* np.std (population standard deviation): sqrt(len * sum(x^2) - sum(x)^2) / len.
Std(s) == [rad |-> Len(s) * SumSq(s) - SumSeq(s) * SumSeq(s), den |-> Len(s)]

\* The integer 1 the code stores as a standard deviation.
One == [rad |-> 1, den |-> 1]

\* std == 0
StdIsZero(s) == s.rad = 0

\* Mutant: the difference taken the wrong way round, mean - ll.
SubReversed(ll, m) == [num |-> m.num - ll * m.den, den |-> m.den]

\* ll - mean
Sub(ll, m) == [num |-> ll * m.den - m.num, den |-> m.den]

\* diff / std
Div(d, s) == [num |-> d.num * s.den, den |-> d.den, rad |-> s.rad]

\* res[key] = value on a dict.
DictSet(res, key, value) ==
    [x \in DOMAIN res \cup {key} |-> IF x = key THEN value ELSE res[x]]


---------------------------------------------------------------------------
\* detect_chatgpt.py: the Likelihood Aggregator.

\* The keys query_lls adds to a record.
DerivedKeys == {"original_ll", "sampled_ll",
                "all_perturbed_sampled_ll", "all_perturbed_original_ll",
                "perturbed_sampled_ll", "perturbed_original_ll",
                "perturbed_sampled_ll_std", "perturbed_original_ll_std"}

\* A record as perturb_texts / load_perturbed hands it over: the two passages
\* and n perturbed versions of each.
PerturbedRecord(n) ==
    [original |-> "original", sampled |-> "sampled",
     perturbed_original |-> [j \in 1..n |-> "perturbed original"],
     perturbed_sampled |-> [j \in 1..n |-> "perturbed sampled"]]

\* qp.get_lls: one score per text of the batch.  np.mean and np.std do not
\* depend on the order of the scores and nothing else reads them, so one
\* batch per multiset of scores is enumerated (the ascending one).
BatchScores(texts) ==
    {s \in [1..Len(texts) -> LLValues] :
        \A j \in 1..(Len(texts) - 1) : s[j] <= s[j + 1]}

\* Lines 96-97: np.std(lls) if len(lls) > 1 else 1.
StdOrOne(lls) == IF Len(lls) > 1 THEN Std(lls) ELSE One

\* Lines 92-97 on one record.
Aggregated(res, sampled_lls, original_lls) ==
    LET r1 == DictSet(res, "all_perturbed_sampled_ll", sampled_lls)
        r2 == DictSet(r1, "all_perturbed_original_ll", original_lls)
        r3 == DictSet(r2, "perturbed_sampled_ll", Mean(sampled_lls))
        r4 == DictSet(r3, "perturbed_original_ll", Mean(original_lls))
        r5 == DictSet(r4, "perturbed_sampled_ll_std", StdOrOne(sampled_lls))
    IN  DictSet(r5, "perturbed_original_ll_std", StdOrOne(original_lls))

\* Line 88 in the loop of line 87; openai_opts is a dict (line 221).
GetPerturbedSampled ==
    /\ pc = "l88" /\ k <= Len(results) /\ openai
    /\ \E lls \in BatchScores(results[k].perturbed_sampled) : p_sampled_ll' = lls
    /\ pc' = "l89"
    /\ UNCHANGED <<openai, results, k, p_original_ll, c, experiments, seen>>

\* Line 88 when query_lls was called without openai_opts (line 224): the
\* call unpacks **None, a TypeError nothing catches.
OptsTypeError ==
    /\ pc = "l88" /\ k <= Len(results) /\ ~openai
    /\ pc' = "aborted"
    /\ UNCHANGED <<openai, results, k, p_sampled_ll, p_original_ll, c, experiments, seen>>

\* Line 89.
GetPerturbedOriginal ==
    /\ pc = "l89"
    /\ \E lls \in BatchScores(results[k].perturbed_original) : p_original_ll' = lls
    /\ pc' = "l90"
    /\ UNCHANGED <<openai, results, k, p_sampled_ll, c, experiments, seen>>

\* Line 90.
GetOriginal ==
    /\ pc = "l90"
    /\ \E ll \in LLValues :
          results' = [results EXCEPT ![k] = DictSet(@, "original_ll", ll)]
    /\ pc' = "l91"
    /\ UNCHANGED <<openai, k, p_sampled_ll, p_original_ll, c, experiments, seen>>

\* Line 91.
GetSampled ==
    /\ pc = "l91"
    /\ \E ll \in LLValues :
          results' = [results EXCEPT ![k] = DictSet(@, "sampled_ll", ll)]
    /\ pc' = "l92"
    /\ UNCHANGED <<openai, k, p_sampled_ll, p_original_ll, c, experiments, seen>>

\* Lines 92-97, and on to the next record.
Aggregate ==
    /\ pc = "l92"
    /\ results' = [results EXCEPT ![k] = Aggregated(@, p_sampled_ll, p_original_ll)]
    /\ k' = k + 1
    /\ pc' = "l88"
    /\ UNCHANGED <<openai, p_sampled_ll, p_original_ll, c, experiments, seen>>

\* Mutant: the exception is caught inside the loop and the loop goes on to
\* the next record, leaving the record as far as it got.
QuerierRaisesCaught ==
    /\ pc \in {"l88", "l89", "l90", "l91"} /\ k <= Len(results) /\ openai
    /\ k' = k + 1
    /\ pc' = "l88"
    /\ UNCHANGED <<openai, results, p_sampled_ll, p_original_ll, c, experiments, seen>>

\* A Querier call of lines 88-91 raises: query_lls has no handler and neither
\* has __main__, so the exception ends the program.
QuerierRaises ==
    /\ pc \in {"l88", "l89", "l90", "l91"} /\ k <= Len(results) /\ openai
    /\ pc' = "aborted"
    /\ UNCHANGED <<openai, results, k, p_sampled_ll, p_original_ll, c, experiments, seen>>

\* Lines 99-102: the loop is over, query_lls returns results to line 225.
QueryReturn ==
    /\ pc = "l88" /\ k > Len(results)
    /\ pc' = "detect"
    /\ c' = 1
    /\ UNCHANGED <<openai, results, k, p_sampled_ll, p_original_ll, experiments, seen>>

---------------------------------------------------------------------------
\* detect_chatgpt.py: the Detector.

\* Line 225: the criteria, in the order __main__ runs them.
Criteria == <<"z", "d">>

\* Mutant: the guards of lines 130 and 135 are missing.
ZeroStdKept(res) == res

\* Lines 130-139 on one record: a stored std of 0 is overwritten by 1.
ZeroStdToOne(res) ==
    LET r1 == IF StdIsZero(res.perturbed_original_ll_std)
              THEN DictSet(res, "perturbed_original_ll_std", One) ELSE res
    IN  IF StdIsZero(r1.perturbed_sampled_ll_std)
        THEN DictSet(r1, "perturbed_sampled_ll_std", One) ELSE r1

\* The record as the loop body of lines 123-141 leaves it.
Visited(res, criterion) == IF criterion = "z" THEN ZeroStdToOne(res) ELSE res

\* Mutant: the real score is taken against the sampled passage's mean.
RealScoreOtherMean(res, criterion) ==
    IF criterion = "d"
    THEN Sub(res.original_ll, res.perturbed_sampled_ll)
    ELSE Div(Sub(res.original_ll, res.perturbed_sampled_ll),
             Visited(res, criterion).perturbed_original_ll_std)

\* Mutant: the z-score divides by the std as stored, the guard of line 130
\* acting only on the record.
RealScoreUnguarded(res, criterion) ==
    IF criterion = "d"
    THEN Sub(res.original_ll, res.perturbed_original_ll)
    ELSE Div(Sub(res.original_ll, res.perturbed_original_ll),
             res.perturbed_original_ll_std)

\* Lines 126 and 140: the score appended to predictions['real'].
RealScore(res, criterion) ==
    IF criterion = "d"
    THEN Sub(res.original_ll, res.perturbed_original_ll)
    ELSE Div(Sub(res.original_ll, res.perturbed_original_ll),
             Visited(res, criterion).perturbed_original_ll_std)

\* Lines 127 and 141: the score appended to predictions['samples'].
SampleScore(res, criterion) ==
    IF criterion = "d"
    THEN Sub(res.sampled_ll, res.perturbed_sampled_ll)
    ELSE Div(Sub(res.sampled_ll, res.perturbed_sampled_ll),
             Visited(res, criterion).perturbed_sampled_ll_std)

\* Lines 122-141 and 147-151: the predictions and the (same) list of records.
run_perturbation_experiment(rs, criterion) ==
    [criterion |-> criterion,
     predictions |-> [real |-> [i \in 1..Len(rs) |-> RealScore(rs[i], criterion)],
                      samples |-> [i \in 1..Len(rs) |-> SampleScore(rs[i], criterion)]],
     raw_results |-> [i \in 1..Len(rs) |-> Visited(rs[i], criterion)]]

\* The keys lines 126-127 and 130-141 read: a missing one is a KeyError.
KeysRead(criterion) ==
    {"original_ll", "sampled_ll", "perturbed_original_ll", "perturbed_sampled_ll"}
    \cup (IF criterion = "z"
          THEN {"perturbed_original_ll_std", "perturbed_sampled_ll_std"}
          ELSE {})

Readable(rs, criterion) ==
    \A i \in 1..Len(rs) : KeysRead(criterion) \subseteq DOMAIN rs[i]

\* Line 225: one experiment per criterion, on the one list of records.
RunExperiment ==
    /\ pc = "detect"
    /\ IF Readable(results, Criteria[c])
       THEN LET out == run_perturbation_experiment(results, Criteria[c])
            IN  /\ results' = out.raw_results
                /\ experiments' = Append(experiments,
                                         [criterion |-> out.criterion,
                                          predictions |-> out.predictions])
                /\ c' = c + 1
                /\ pc' = IF c = Len(Criteria) THEN "done" ELSE "detect"
       ELSE /\ pc' = "aborted"
            /\ UNCHANGED <<results, experiments, c>>
    /\ UNCHANGED <<openai, k, p_sampled_ll, p_original_ll, seen>>

---------------------------------------------------------------------------
\* The pipeline of __main__, lines 209-225.

PipeInit ==
    /\ openai \in BOOLEAN
    /\ \E m \in 1..MaxRecords, n \in 0..MaxPerturbations :
          results = [i \in 1..m |-> PerturbedRecord(n)]
    /\ pc = "l88"
    /\ k = 1
    /\ p_sampled_ll = <<>>
    /\ p_original_ll = <<>>
    /\ c = 0
    /\ experiments = <<>>
    /\ seen = {}

PipeIdle ==
    /\ openai = FALSE /\ results = <<>> /\ pc = "idle" /\ k = 0
    /\ p_sampled_ll = <<>> /\ p_original_ll = <<>> /\ c = 0
    /\ experiments = <<>> /\ seen = {}

RepairIdle ==
    /\ data = <<>> /\ row = 0 /\ count = 0 /\ fail = 0 /\ rpc = "idle"
    /\ broken = <<>> /\ queried = {} /\ row_is_view = FALSE

Init == PipeInit /\ RepairIdle

Next ==
    \/ (GetPerturbedSampled /\ UNCHANGED repairVars)
    \/ (OptsTypeError /\ UNCHANGED repairVars)
    \/ (GetPerturbedOriginal /\ UNCHANGED repairVars)
    \/ (GetOriginal /\ UNCHANGED repairVars)
    \/ (GetSampled /\ UNCHANGED repairVars)
    \/ (Aggregate /\ UNCHANGED repairVars)
    \/ (QuerierRaises /\ UNCHANGED repairVars)
    \/ (QueryReturn /\ UNCHANGED repairVars)
    \/ (RunExperiment /\ UNCHANGED repairVars)

Spec == Init /\ [][Next]_vars

---------------------------------------------------------------------------
\* The Detector called again and again on the list query_lls returned: any
\* criterion, any number of times, in any order.

\* One call of run_perturbation_experiment(results, criterion, ...); seen
\* collects what the calls returned, each marked with whether both
\* criteria had been run on the list before it.
Invoke(criterion) ==
    /\ pc = "detect"
    /\ IF Readable(results, criterion)
       THEN LET out == run_perturbation_experiment(results, criterion)
            IN  /\ results' = out.raw_results
                /\ seen' = seen \cup
                     {[criterion |-> out.criterion,
                       predictions |-> out.predictions,
                       rerun |-> {e.criterion : e \in seen} = {"z", "d"}]}
                /\ pc' = pc
       ELSE /\ pc' = "aborted"
            /\ UNCHANGED <<results, seen>>
    /\ UNCHANGED <<openai, k, p_sampled_ll, p_original_ll, c, experiments>>

InvokeZ == Invoke("z")

InvokeD == Invoke("d")

\* A record as query_lls returns it (lines 88-97), for n perturbations.
QueryOutputs(n) ==
    {Aggregated(DictSet(DictSet(PerturbedRecord(n), "original_ll", o), "sampled_ll", s),
                ps, po) :
        o \in LLValues, s \in LLValues,
        ps \in BatchScores(PerturbedRecord(n).perturbed_sampled),
        po \in BatchScores(PerturbedRecord(n).perturbed_original)}

\* The list query_lls returned (line 102), about to be handed to the Detector.
DetectorInit ==
    /\ openai = TRUE
    /\ \E m \in 1..MaxCallRecords, n \in 0..MaxPerturbations :
          /\ results \in [1..m -> QueryOutputs(n)]
          /\ k = m + 1
    /\ pc = "detect"
    /\ p_sampled_ll = <<>>
    /\ p_original_ll = <<>>
    /\ c = 1
    /\ experiments = <<>>
    /\ seen = {}

InitDetector == DetectorInit /\ RepairIdle

NextDetector ==
    \/ (InvokeZ /\ UNCHANGED repairVars)
    \/ (InvokeD /\ UNCHANGED repairVars)

SpecDetector == InitDetector /\ [][NextDetector]_vars

---------------------------------------------------------------------------
\* data_processing.py: repair_dataframe.

\* data_querying.FAILSTRING, the response of a row still to be repaired.
FAILSTRING == "FAILSTRING"

\* The responses a row of the frame may hold.
Responses == {FAILSTRING, "response"}

\* Line 64, row['responses'] = response: row is the Series iterrows yields,
\* which is a copy of the frame's row or a view of it, depending on the
\* frame's dtypes.
RowWritten(frame, i, response) ==
    IF row_is_view THEN [frame EXCEPT ![i] = response] ELSE frame

\* Line 60 false: the row is passed over.
SkipRow ==
    /\ rpc = "loop" /\ row <= Len(data)
    /\ data[row] # FAILSTRING
    /\ row' = row + 1
    /\ UNCHANGED <<data, count, fail, rpc, broken, queried, row_is_view>>

\* Lines 61-69 with no exception.
RepairRow ==
    /\ rpc = "loop" /\ row <= Len(data)
    /\ data[row] = FAILSTRING
    /\ data' = RowWritten(data, row, "response")
    /\ count' = count + 1
    /\ queried' = queried \cup {row}
    /\ row' = row + 1
    /\ UNCHANGED <<fail, rpc, broken, row_is_view>>

\* Line 63 raises: lines 70-73.
PromptRaises ==
    /\ rpc = "loop" /\ row <= Len(data)
    /\ data[row] = FAILSTRING
    /\ fail' = fail + 1
    /\ queried' = queried \cup {row}
    /\ row' = row + 1
    /\ UNCHANGED <<data, count, rpc, broken, row_is_view>>

\* Line 68 or line 69 raises, after lines 63-67 ran: lines 70-73.
ResetRaises ==
    /\ rpc = "loop" /\ row <= Len(data)
    /\ data[row] = FAILSTRING
    /\ \E site \in {"reset_chat", "clear_conversations"} :
          /\ data' = RowWritten(data, row, "response")
          /\ count' = count + 1
          /\ fail' = fail + 1
    /\ queried' = queried \cup {row}
    /\ row' = row + 1
    /\ UNCHANGED <<rpc, broken, row_is_view>>

\* Lines 74-75: the loop is over.
RepairReturn ==
    /\ rpc = "loop" /\ row > Len(data)
    /\ rpc' = "done"
    /\ UNCHANGED <<data, row, count, fail, broken, queried, row_is_view>>

\* Lines 57-59; broken keeps the frame as it was read (line 147).
RepairInit ==
    /\ \E m \in 0..MaxRows : data \in [1..m -> Responses]
    /\ broken = data
    /\ row = 1 /\ count = 0 /\ fail = 0 /\ rpc = "loop"
    /\ queried = {}
    /\ row_is_view \in BOOLEAN

InitRepair == PipeIdle /\ RepairInit

NextRepair ==
    \/ (SkipRow /\ UNCHANGED pipeVars)
    \/ (RepairRow /\ UNCHANGED pipeVars)
    \/ (PromptRaises /\ UNCHANGED pipeVars)
    \/ (ResetRaises /\ UNCHANGED pipeVars)
    \/ (RepairReturn /\ UNCHANGED pipeVars)

SpecRepair == InitRepair /\ [][NextRepair]_vars

---------------------------------------------------------------------------
\* Vocabulary of the properties.

\* Every derived key is in the record.
Complete(res) == DerivedKeys \subseteq DOMAIN res

\* Some derived keys are in the record and some are not.
Partial(res) ==
    /\ DerivedKeys \cap DOMAIN res # {}
    /\ ~ Complete(res)

\* All scores of the list are the same (none or one score included).
AllSame(lls) == \A i, j \in 1..Len(lls) : lls[i] = lls[j]

\* The standard deviation s is the number 1.
StdIsOne(s) == s.den > 0 /\ s.rad = s.den * s.den

\* Equality and order of the numbers num / den.
RatEq(a, b) == a.num * b.den = b.num * a.den
RatLess(a, b) == a.num * b.den < b.num * a.den

SameSign(a, b) == (a > 0 /\ b > 0) \/ (a < 0 /\ b < 0) \/ (a = 0 /\ b = 0)

\* Equality of the numbers num / (den * sqrt(rad)).
ZEq(z, w) ==
    LET a == z.num * w.den
        b == w.num * z.den
    IN  SameSign(a, b) /\ a * a * w.rad = b * b * z.rad

\* (ll - mean) / s, with mean = [num, den] and s = [rad, den].
Quotient(ll, mean, s) ==
    [num |-> (ll * mean.den - mean.num) * s.den, den |-> mean.den, rad |-> s.rad]

\* s if it is not 0, and 1 if it is.
NonZeroOrOne(s) == IF s.rad = 0 THEN One ELSE s

\* The step of line 225 that runs the experiment of criterion cr.
ExperimentStep(cr) ==
    /\ pc = "detect"
    /\ Criteria[c] = cr
    /\ experiments' # experiments

\* C1: after query_lls has processed a record, each std field is 1 whenever
\* its perturbation set has fewer than 2 scores or only identical scores,
\* and no std field is 0.
C1_StdFloorInAggregator ==
    \A i \in 1..Len(results) :
        Complete(results[i]) =>
            /\ AllSame(results[i].all_perturbed_original_ll)
                  => StdIsOne(results[i].perturbed_original_ll_std)
            /\ AllSame(results[i].all_perturbed_sampled_ll)
                  => StdIsOne(results[i].perturbed_sampled_ll_std)
            /\ ~ StdIsZero(results[i].perturbed_original_ll_std)
            /\ ~ StdIsZero(results[i].perturbed_sampled_ll_std)

\* C2: under criterion 'z' the real score of every record is
\* (original_ll - perturbed_original_ll) / s_orig and its samples score is
\* (sampled_ll - perturbed_sampled_ll) / s_samp, s being the std the record
\* stored before the call if that is not 0 and 1 if it is; no divisor is 0.
C2_ZScoreOfStoredStd ==
    [][ExperimentStep("z") =>
        LET p == experiments'[Len(experiments')].predictions
        IN  /\ Len(p.real) = Len(results)
            /\ Len(p.samples) = Len(results)
            /\ \A i \in 1..Len(results) :
                  /\ p.real[i].rad # 0
                  /\ p.samples[i].rad # 0
                  /\ ZEq(p.real[i],
                         Quotient(results[i].original_ll,
                                  results[i].perturbed_original_ll,
                                  NonZeroOrOne(results[i].perturbed_original_ll_std)))
                  /\ ZEq(p.samples[i],
                         Quotient(results[i].sampled_ll,
                                  results[i].perturbed_sampled_ll,
                                  NonZeroOrOne(results[i].perturbed_sampled_ll_std)))
    ]_vars

\* C2 witness: the z experiment has run on a list with a record whose
\* stored std was 0 (two or more identical scores) and a std that was not.
C2_Witness ==
    /\ Len(experiments) >= 1
    /\ experiments[1].criterion = "z"
    /\ \E i \in 1..Len(results) :
          /\ Len(results[i].all_perturbed_original_ll) >= 2
          /\ AllSame(results[i].all_perturbed_original_ll)
          /\ ~ AllSame(results[i].all_perturbed_sampled_ll)

\* C3: under criterion 'd' there is one real and one samples score per
\* record, in record order: real[i] = original_ll - perturbed_original_ll
\* and samples[i] = sampled_ll - perturbed_sampled_ll of the i-th record.
C3_DifferencePerRecord ==
    [][ExperimentStep("d") =>
        LET p == experiments'[Len(experiments')].predictions
        IN  /\ Len(p.real) = Len(results)
            /\ Len(p.samples) = Len(results)
            /\ \A i \in 1..Len(results) :
                  /\ p.real[i].den = results[i].perturbed_original_ll.den
                  /\ p.real[i].num + results[i].perturbed_original_ll.num
                        = results[i].original_ll * p.real[i].den
                  /\ p.samples[i].den = results[i].perturbed_sampled_ll.den
                  /\ p.samples[i].num + results[i].perturbed_sampled_ll.num
                        = results[i].sampled_ll * p.samples[i].den
    ]_vars

\* C3 witness: the d experiment has run on two records whose real scores
\* differ and whose samples scores differ.
C3_Witness ==
    /\ pc = "done"
    /\ Len(results) >= 2
    /\ experiments[2].criterion = "d"
    /\ experiments[2].predictions.real[1].den > 0
    /\ ~ RatEq(experiments[2].predictions.real[1], experiments[2].predictions.real[2])
    /\ ~ RatEq(experiments[2].predictions.samples[1],
               experiments[2].predictions.samples[2])

\* C4: run_perturbation_experiment leaves every field of every record as
\* it was before the call, whatever the criterion.
C4_DetectorReadOnly == [][pc = "detect" => results' = results]_vars

\* C5: when the Querier fails while record k is built, every other record,
\* those after k included, is still scored and has all its derived fields.
C5_OtherRecordsScored ==
    (pc = "aborted" /\ openai) =>
        \A i \in 1..Len(results) : i # k => Complete(results[i])

\* C6: no record with only some of its derived fields is ever passed to
\* run_perturbation_experiment, Querier failures included.
C6_NoPartialRecordDetected ==
    pc \in {"detect", "done"} =>
        \A i \in 1..Len(results) : ~ Partial(results[i])

\* C6 witness: a Querier call failed in the middle of a record, which is
\* left with only some of its derived fields.
C6_Witness ==
    /\ pc = "aborted"
    /\ \E i \in 1..Len(results) : Partial(results[i])

\* C7: with the local-model backend (no remote-API options) query_lls
\* completes without error and returns every record complete.
C7_LocalBackendCompletes ==
    ~ openai =>
        /\ pc # "aborted"
        /\ pc \in {"detect", "done"} =>
              \A i \in 1..Len(results) : Complete(results[i])

\* C8: two calls of run_perturbation_experiment on the same list with the
\* same criterion return the same real and samples scores, whatever was
\* run on the list in between.
C8_DetectorDeterministic ==
    \A a, b \in seen :
        a.criterion = b.criterion => a.predictions = b.predictions

\* C8 witness: criterion z was run again after both z and d had been run,
\* on a list with a record whose stored std was 0.
C8_Witness ==
    /\ \E e \in seen : e.criterion = "z" /\ e.rerun
    /\ \E e \in seen : e.criterion = "d" /\ e.rerun
    /\ \E i \in 1..Len(results) :
          /\ Len(results[i].all_perturbed_original_ll) >= 2
          /\ AllSame(results[i].all_perturbed_original_ll)

C10_EachFailedRowCountedOnce ==
    rpc = "done" =>
        /\ count + fail = Cardinality({i \in 1..Len(broken) : broken[i] = FAILSTRING})
        /\ queried = {i \in 1..Len(broken) : broken[i] = FAILSTRING}

=============================================================================
